---- MODULE Spec2Model ----
(***************************************************************************)
(* Model of download_album.js (latest version, src/unnamed/part_000):     *)
(* command-line handling, the album orchestrator (the async IIFE), the    *)
(* directory preparer, the cover download and the bounded scheduler        *)
(* executeInChunks with its race-and-replace window.                       *)
(*                                                                         *)
(* Promises are modelled by what settles them.  The promise returned by   *)
(* execWith(element, index) is a record [item, index]; it is pending      *)
(* while the task of its item runs, resolved with index when the task     *)
(* finished, rejected when the task failed.  Promise.race is a record     *)
(* [st, index].  Tasks settle on I/O events; continuations of awaits are  *)
(* steps of their own.                                                     *)
(***************************************************************************)
EXTENDS Integers, Sequences, FiniteSets, TLC

\* ---- bounds of the model ----
MaxTracks == 4
MaxLimit == 3
MaxStrLen == 3

Tracks == 1..MaxTracks

VARIABLES
  argv,          \* the parsed command line (minimist result)
  pc,            \* position of the main async IIFE
  exitCode,      \* -1 while running, else the code given to process.exit
  log,           \* set of batch-level console messages printed so far
  listing,       \* "none" | "ok" | "failed": outcome of the listing request
  tracksData,    \* descriptors returned by getLinksAndTags (track ordinals)
  accessCalls,   \* number of fs.access calls issued
  mkdirCalls,    \* number of fs.mkdir calls issued
  coverState,    \* "none" | "pending" | "ok" | "failed"
  mkdirFailed,   \* the fs.mkdir calls ("artist", "album") that got an error
  caught,        \* error caught by the top-level handler ("none" if none)
  schedCalls,    \* number of executeInChunks invocations
  queueSize,     \* the queueSize argument of executeInChunks
  callbackArgs,  \* the backlog array, consumed from the front
  queueArray,    \* the window: sequence of execWith promises
  race,          \* the Promise.race keepQueueSize is suspended on
  started,       \* items in the order the callback was invoked on them
  taskState,     \* per item: "idle" | "running" | "finished" | "failed"
  unhandled,     \* promises rejected with no handler attached
  notes,         \* per item: the notifications downloadTrack printed, in order
  fetches,       \* per item: number of downloadFile calls made for it
  hung,          \* running items whose stream will never emit an event
  inputString,   \* argument given to cleanUpSymbols
  cleanedOnce,   \* cleanUpSymbols(inputString)
  cleanedTwice,  \* cleanUpSymbols(cleanUpSymbols(inputString))
  cleanPc        \* "off" | "input" | "once" | "twice"

vars == <<argv, pc, exitCode, log, listing, tracksData, accessCalls,
          mkdirCalls, mkdirFailed, coverState, caught, schedCalls, queueSize,
          callbackArgs, queueArray, race, started, taskState, unhandled,
          notes, fetches, hung,
          inputString, cleanedOnce, cleanedTwice, cleanPc>>

cleanVars == <<inputString, cleanedOnce, cleanedTwice, cleanPc>>

orchVars == <<argv, pc, exitCode, log, listing, tracksData, accessCalls,
              mkdirCalls, mkdirFailed, coverState, caught>>

mainVars == <<cleanVars, orchVars>>

schedVars == <<schedCalls, queueSize, callbackArgs, queueArray, race,
               started, taskState, unhandled, notes, fetches, hung>>

\* ---- helpers ----
Min(a, b) == IF a < b THEN a ELSE b

Max(a, b) == IF a > b THEN a ELSE b

\* Array.prototype.slice(begin, end): negative arguments count from the end.
RelIndex(len, k) == IF k < 0 THEN Max(len + k, 0) ELSE Min(k, len)

Slice(arr, begin, end) ==
  LET b == RelIndex(Len(arr), begin)
      e == RelIndex(Len(arr), end)
  IN  IF b < e THEN SubSeq(arr, b + 1, e) ELSE <<>>

\* Variant: slice semantics, the array is left as it was.
SpliceResult_KeepsAll(arr, start, deleteCount, items) == arr

\* Array.prototype.splice(start, deleteCount, ...items): the removed part
\* and the array that is left.
SpliceCount(len, start, deleteCount) == Min(Max(deleteCount, 0), len - start)

SpliceRemoved(arr, start, deleteCount) ==
  LET s == RelIndex(Len(arr), start)
  IN  SubSeq(arr, s + 1, s + SpliceCount(Len(arr), s, deleteCount))

SpliceResult(arr, start, deleteCount, items) ==
  LET s == RelIndex(Len(arr), start)
      c == SpliceCount(Len(arr), s, deleteCount)
  IN  SubSeq(arr, 1, s) \o items \o SubSeq(arr, s + c + 1, Len(arr))

\* ---- command line ----
\* argv as minimist returns it: sim is a number unless simIsNumber is FALSE
\* (e.g. "-s abc"); trackID is the default false unless trackGiven.  Both
\* numbers may be zero or negative (e.g. "--sim=-1", "-t 0").
ArgvValues ==
  [help : BOOLEAN, debug : BOOLEAN, unknownKey : BOOLEAN,
   simIsNumber : BOOLEAN, sim : (-1)..MaxLimit,
   trackGiven : BOOLEAN, trackID : (-1)..(MaxTracks + 1)]

\* `if (trackID)`: false and 0 are falsy.
TrackIDTruthy == argv.trackGiven /\ argv.trackID # 0

\* The program before its first step, the command line apart.
ProgramInit ==
  /\ pc = "parseArgs"
  /\ exitCode = -1
  /\ log = {}
  /\ listing = "none"
  /\ tracksData = <<>>
  /\ accessCalls = 0
  /\ mkdirCalls = 0
  /\ mkdirFailed = {}
  /\ coverState = "none"
  /\ caught = "none"
  /\ schedCalls = 0
  /\ queueSize = 0
  /\ callbackArgs = <<>>
  /\ queueArray = <<>>
  /\ race = [st |-> "idle", index |-> 0]
  /\ started = <<>>
  /\ taskState = [t \in Tracks |-> "idle"]
  /\ unhandled = {}
  /\ notes = [t \in Tracks |-> <<>>]
  /\ fetches = [t \in Tracks |-> 0]
  /\ hung = {}

Init ==
  /\ argv \in {a \in ArgvValues :
                 /\ (~a.simIsNumber => a.sim = 0)
                 /\ (~a.trackGiven => a.trackID = 0)}
  /\ ProgramInit
  /\ inputString = <<>>
  /\ cleanedOnce = <<>>
  /\ cleanedTwice = <<>>
  /\ cleanPc = "off"

\* Variant: usage prints but does not exit, and the run goes on.
Usage_NoExit(code, msgs) ==
  /\ log' = log \cup msgs \cup {"Usage"}
  /\ exitCode' = exitCode
  /\ pc' = "request"

\* usage(exitCode): print the usage text and process.exit(exitCode).
Usage(code, msgs) ==
  /\ log' = log \cup msgs \cup {"Usage"}
  /\ exitCode' = code
  /\ pc' = "exited"

\* parseArgs(process.argv.slice(2), {... unknown: key => ...}) at load time.
ParseArgs ==
  /\ pc = "parseArgs"
  /\ IF argv.unknownKey
       THEN Usage(1, {"Unknown key"})
       ELSE /\ pc' = "processArgs"
            /\ UNCHANGED <<log, exitCode>>
  /\ UNCHANGED <<cleanVars, argv, listing, tracksData, accessCalls, mkdirCalls,
                 mkdirFailed, coverState, caught>>
  /\ UNCHANGED schedVars

\* processArgs(argv), then the request for the listing is issued.
ProcessArgs ==
  /\ pc = "processArgs"
  /\ IF argv.help
       THEN Usage(0, {})
       ELSE IF ~argv.simIsNumber
              THEN Usage(1, {})
              ELSE /\ pc' = "request"
                   /\ UNCHANGED <<log, exitCode>>
  /\ UNCHANGED <<cleanVars, argv, listing, tracksData, accessCalls, mkdirCalls,
                 mkdirFailed, coverState, caught>>
  /\ UNCHANGED schedVars

\* ---- the bounded scheduler: executeInChunks ----
\* execWith(element, index): the promise of one callback invocation, which
\* resolves with index once callback(element) has resolved.
ExecWith(element, index) == [item |-> element, index |-> index]

\* State of an execWith promise under task states ts.
PromiseState(p, ts) ==
  CASE ts[p.item] = "finished" -> "resolved"
    [] ts[p.item] = "failed" -> "rejected"
    [] OTHER -> "pending"

\* Variant: the race is not waited for and yields slot 0 at once.
PromiseRace_NoWait(q, ts) == [st |-> "resolved", index |-> 0]

\* Promise.race(q) at creation: an already settled member wins at once, the
\* one at the lowest position first (reactions are queued in array order);
\* otherwise the race stays pending until a member settles.
PromiseRace(q, ts) ==
  LET settled == {i \in 1..Len(q) : PromiseState(q[i], ts) # "pending"}
  IN  IF settled = {}
        THEN [st |-> "pending", index |-> 0]
        ELSE LET w == CHOOSE i \in settled : \A j \in settled : i <= j
             IN  IF PromiseState(q[w], ts) = "resolved"
                   THEN [st |-> "resolved", index |-> q[w].index]
                   ELSE [st |-> "rejected", index |-> 0]

\* Variant: the backlog test is `callbackArgs.length > 1`.
KeepQueueSize_StopsEarly(args, q, ts) ==
  IF Len(args) > 1 THEN PromiseRace(q, ts) ELSE [st |-> "idle", index |-> 0]

\* keepQueueSize() up to its await: nothing to do on an empty backlog,
\* else suspend on a race over the window.
KeepQueueSize(args, q, ts) ==
  IF Len(args) > 0 THEN PromiseRace(q, ts) ELSE [st |-> "idle", index |-> 0]

\* Variant: the initial window takes one item too many.
InitialChunk_OneMore(args, qs) == SpliceRemoved(args, 0, qs + 1)

\* callbackArgs.splice(0, queueSize): the items of the initial window.
InitialChunk(args, qs) == SpliceRemoved(args, 0, qs)

\* .map(execWith): one promise per item, tagged with its position.
MapExecWith(chunk) == [i \in 1..Len(chunk) |-> ExecWith(chunk[i], i - 1)]

\* Variant: pop() instead of shift(), the item is taken from the back.
Shift_Pop(args) == args[Len(args)]

\* callbackArgs.shift(): the item removed from the front.
Shift(args) == Head(args)

\* Variant: splice(index, 0, p) inserts without removing the settled promise.
ReplaceSlot_Insert(q, index, p) == SpliceResult(q, index, 0, <<p>>)

\* Variant: the replacement goes into the slot after the settled one.
ReplaceSlot_WrongSlot(q, index, p) ==
  SpliceResult(q, (index + 1) % Len(q), 1, <<p>>)

\* Variant: the replacement always goes into the first slot.
ReplaceSlot_AlwaysFirst(q, index, p) == SpliceResult(q, 0, 1, <<p>>)

\* queueArray.splice(index, 1, p)
ReplaceSlot(q, index, p) == SpliceResult(q, index, 1, <<p>>)

\* Task states after the callback was invoked on the items of chunk.
StartTasks(ts, chunk) ==
  [t \in Tracks |->
     IF \E i \in 1..Len(chunk) : chunk[i] = t THEN "running" ELSE ts[t]]

\* downloadTrack up to its await, for the items of chunk: it prints
\* 'Starting download' and then calls downloadFile once.
StartNotes(ns, chunk) ==
  [t \in Tracks |->
     IF \E i \in 1..Len(chunk) : chunk[i] = t
       THEN Append(ns[t], "Starting download")
       ELSE ns[t]]

StartFetches(fs, chunk) ==
  [t \in Tracks |->
     IF \E i \in 1..Len(chunk) : chunk[i] = t THEN fs[t] + 1 ELSE fs[t]]

\* Variant: downloadTrack creates its directory (one fs.mkdir per track).
TrackMkdirs_PerTrack(chunk) == Len(chunk)

\* Number of fs.mkdir calls downloadTrack makes for the items of chunk: it
\* sanitizes, logs and streams, and creates no directory.
TrackMkdirs(chunk) == 0

\* executeInChunks(args, downloadTrack, qs), the whole synchronous call.
ExecuteInChunks(args, qs) ==
  LET chunk == InitialChunk(args, qs)
      rest == SpliceResult(args, 0, qs, <<>>)
      q == MapExecWith(chunk)
      ts == StartTasks(taskState, chunk)
  IN  /\ schedCalls' = schedCalls + 1
      /\ queueSize' = qs
      /\ callbackArgs' = rest
      /\ queueArray' = q
      /\ started' = started \o chunk
      /\ taskState' = ts
      /\ notes' = StartNotes(notes, chunk)
      /\ fetches' = StartFetches(fetches, chunk)
      /\ mkdirCalls' = mkdirCalls + TrackMkdirs(chunk)
      /\ race' = KeepQueueSize(rest, q, ts)
      /\ UNCHANGED <<unhandled, hung>>

\* Position in the window of the promise of item t (0 if it has none).
SlotOf(q, t) ==
  IF \E i \in 1..Len(q) : q[i].item = t
    THEN CHOOSE i \in 1..Len(q) :
           q[i].item = t /\ \A j \in 1..Len(q) : q[j].item = t => i <= j
    ELSE 0

\* Variant: the catch of downloadTrack does not rethrow.
DownloadTrackOutcome_Swallow(ok) == "finished"

\* How the promise of downloadTrack settles when the stream ends well (ok)
\* or with an error: `return file` or `throw error`.
DownloadTrackOutcome(ok) == IF ok THEN "finished" ELSE "failed"

\* The notification downloadTrack prints when the stream ends.
DownloadTrackNote(ok) ==
  IF ok THEN "Download is finished" ELSE "Download is failed"

\* downloadTrack settles for item t (stream 'finish' or 'error'): the
\* execWith promise of t settles, and a race pending on it settles with it.
\* I/O callbacks run only once the microtask of `await executeInChunks(...)`
\* has run.
\* A stream that hangs emits neither event, so its task never settles.
Settle(t, ok) ==
  /\ pc # "awaitChunks"
  /\ taskState[t] = "running"
  /\ t \notin hung
  /\ taskState' = [taskState EXCEPT ![t] = DownloadTrackOutcome(ok)]
  /\ notes' = [notes EXCEPT ![t] = Append(@, DownloadTrackNote(ok))]
  /\ LET i == SlotOf(queueArray, t)
         raced == race.st = "pending" /\ i # 0
         failed == DownloadTrackOutcome(ok) = "failed"
     IN  /\ race' = IF raced
                      THEN IF ~failed
                             THEN [st |-> "resolved",
                                   index |-> queueArray[i].index]
                             ELSE [st |-> "rejected", index |-> 0]
                      ELSE race
         /\ unhandled' = IF failed /\ ~raced
                           THEN unhandled \cup {"execWith"}
                           ELSE unhandled
  /\ UNCHANGED <<schedCalls, queueSize, callbackArgs, queueArray, started,
                 fetches, hung>>
  /\ UNCHANGED mainVars

TaskSettles == \E t \in Tracks, ok \in BOOLEAN : Settle(t, ok)

\* Every settlement is a success.
TaskSucceeds == \E t \in Tracks : Settle(t, TRUE)

\* The stream of a running task hangs: no 'finish', no 'error', and the
\* code has neither timeout nor cancellation.  At most one task hangs.
Hang(t) ==
  /\ taskState[t] = "running"
  /\ hung = {}
  /\ hung' = {t}
  /\ UNCHANGED <<schedCalls, queueSize, callbackArgs, queueArray, race,
                 started, taskState, unhandled, notes, fetches>>
  /\ UNCHANGED mainVars

TaskHangs == \E t \in Tracks : Hang(t)

\* keepQueueSize resumes with the index the race resolved with: replace
\* that slot by a task for the next backlog item and call itself again.
KeepQueueSizeResume ==
  /\ race.st = "resolved"
  /\ LET index == race.index
         next == Shift(callbackArgs)
         rest == Tail(callbackArgs)
         q == ReplaceSlot(queueArray, index, ExecWith(next, index))
         ts == StartTasks(taskState, <<next>>)
     IN  /\ callbackArgs' = rest
         /\ queueArray' = q
         /\ started' = Append(started, next)
         /\ taskState' = ts
         /\ notes' = StartNotes(notes, <<next>>)
         /\ fetches' = StartFetches(fetches, <<next>>)
         /\ mkdirCalls' = mkdirCalls + TrackMkdirs(<<next>>)
         /\ race' = KeepQueueSize(rest, q, ts)
  /\ UNCHANGED <<schedCalls, queueSize, unhandled, hung>>
  /\ UNCHANGED <<cleanVars, argv, pc, exitCode, log, listing, tracksData,
                 accessCalls, mkdirFailed, coverState, caught>>

\* keepQueueSize's catch: the race rejected.  The error is rethrown into
\* the promise of keepQueueSize(), which no caller holds.
KeepQueueSizeCatch ==
  /\ race.st = "rejected"
  /\ log' = log \cup {"Cannot assemble another chunk"}
  /\ race' = [st |-> "aborted", index |-> 0]
  /\ unhandled' = unhandled \cup {"keepQueueSize"}
  /\ UNCHANGED <<schedCalls, queueSize, callbackArgs, queueArray, started,
                 taskState, notes, fetches, hung>>
  /\ UNCHANGED <<cleanVars, argv, pc, exitCode, listing, tracksData,
                 accessCalls, mkdirCalls, mkdirFailed, coverState, caught>>

\* ---- the orchestrator: the main async IIFE ----
\* The catch of the IIFE.
Catch(error) ==
  /\ caught' = error
  /\ log' = log \cup {"Failed to download the album"}
                \cup (IF argv.debug THEN {"stack"} ELSE {})
  /\ pc' = "done"

\* Variant: the read of tracksData[0] is guarded and never throws.
PrepareAlbumDirThrows_Never(td) == FALSE

\* prepareAlbumDir reads tracksData[0].artist inside the promise executor:
\* on an empty list that throws a TypeError and the promise rejects.
PrepareAlbumDirThrows(td) == Len(td) = 0

\* Variant: the ordinal is taken as a 0-based index.
SingleTrack_ZeroBased(td, trackID) == Slice(td, trackID, trackID + 1)

\* tracksData.slice(trackID - 1, trackID)
SingleTrack(td, trackID) == Slice(td, trackID - 1, trackID)

\* The listing request settles; on success getLinksAndTags yields n
\* descriptors and prepareAlbumDir is called (fs.access is issued).
ListingResponse ==
  /\ pc = "request"
  /\ \E ok \in BOOLEAN, n \in 0..MaxTracks :
       /\ (~ok => n = 0)
       /\ IF ~ok
            THEN /\ listing' = "failed"
                 /\ Catch("RequestError")
                 /\ UNCHANGED <<tracksData, accessCalls>>
            ELSE /\ listing' = "ok"
                 /\ tracksData' = [i \in 1..n |-> i]
                 /\ IF PrepareAlbumDirThrows(tracksData')
                      THEN /\ Catch("TypeError")
                           /\ UNCHANGED accessCalls
                      ELSE /\ accessCalls' = accessCalls + 1
                           /\ pc' = "access"
                           /\ UNCHANGED <<log, caught>>
  /\ UNCHANGED <<cleanVars, argv, exitCode, mkdirCalls, mkdirFailed, coverState>>
  /\ UNCHANGED schedVars

\* Main resumes after `await prepareAlbumDir(tracksData)`.
AfterPrepare ==
  IF TrackIDTruthy
    THEN /\ ExecuteInChunks(SingleTrack(tracksData, argv.trackID), 1)
         /\ pc' = "done"
         /\ UNCHANGED coverState
    ELSE /\ coverState' = "pending"
         /\ pc' = "cover"
         /\ UNCHANGED mkdirCalls
         /\ UNCHANGED schedVars

\* fs.access callback: the album directory exists or not.
AccessCallback ==
  /\ pc = "access"
  /\ \E exists \in BOOLEAN :
       IF exists
         THEN AfterPrepare
         ELSE /\ mkdirCalls' = mkdirCalls + 1
              /\ pc' = "mkdirArtist"
              /\ UNCHANGED coverState
              /\ UNCHANGED schedVars
  /\ UNCHANGED <<cleanVars, argv, exitCode, log, listing, tracksData, accessCalls,
                 mkdirFailed, caught>>

\* fs.mkdir(artist) callback: its error argument is ignored.
MkdirArtistCallback ==
  /\ pc = "mkdirArtist"
  /\ \E err \in BOOLEAN :
       mkdirFailed' = IF err THEN mkdirFailed \cup {"artist"} ELSE mkdirFailed
  /\ mkdirCalls' = mkdirCalls + 1
  /\ pc' = "mkdirAlbum"
  /\ UNCHANGED <<cleanVars, argv, exitCode, log, listing, tracksData, accessCalls,
                 coverState, caught>>
  /\ UNCHANGED schedVars

\* fs.mkdir(albumDir) callback: its error argument is ignored; resolve.
MkdirAlbumCallback ==
  /\ pc = "mkdirAlbum"
  /\ \E err \in BOOLEAN :
       mkdirFailed' = IF err THEN mkdirFailed \cup {"album"} ELSE mkdirFailed
  /\ AfterPrepare
  /\ UNCHANGED <<cleanVars, argv, exitCode, log, listing, tracksData,
                 accessCalls, caught>>

\* Variant: the `throw error` in the catch of downloadCover is active.
DownloadCoverThrows_Rethrow(ok) == ~ok

\* Whether downloadCover rejects: its catch only logs (`// throw error`).
DownloadCoverThrows(ok) == FALSE

\* downloadCover settles (its failure is swallowed), then main calls
\* executeInChunks(tracksData, downloadTrack, parallelDownloads).
CoverSettles ==
  /\ pc = "cover"
  /\ \E ok \in BOOLEAN :
       /\ coverState' = IF ok THEN "ok" ELSE "failed"
       /\ IF DownloadCoverThrows(ok)
            THEN /\ caught' = "CoverError"
                 /\ log' = log \cup {"Failed to download cover",
                                     "Failed to download the album"}
                               \cup (IF argv.debug THEN {"stack"} ELSE {})
                 /\ pc' = "done"
                 /\ UNCHANGED mkdirCalls
                 /\ UNCHANGED schedVars
            ELSE /\ log' = log \cup {IF ok THEN "Cover is downloaded"
                                           ELSE "Failed to download cover"}
                 /\ ExecuteInChunks(tracksData, argv.sim)
                 /\ pc' = "awaitChunks"
                 /\ UNCHANGED caught
  /\ UNCHANGED <<cleanVars, argv, exitCode, listing, tracksData, accessCalls,
                 mkdirFailed>>

\* `await executeInChunks(...)`: the call returned undefined, so the await
\* resumes in the next microtask and the try block ends.
AwaitChunksReturns ==
  /\ pc = "awaitChunks"
  /\ pc' = "done"
  /\ UNCHANGED <<cleanVars, argv, exitCode, log, listing, tracksData, accessCalls,
                 mkdirCalls, mkdirFailed, coverState, caught>>
  /\ UNCHANGED schedVars

\* ---- the sanitizer: cleanUpSymbols ----
\* The character class of the regular expression /[:/\"*<>|?]/g.
ForbiddenChars == {":", "/", "\"", "*", "<", ">", "|", "?"}

\* Characters of the input strings: the forbidden ones and two others.
Alphabet == ForbiddenChars \cup {"a", "b"}

\* Strings as sequences of characters, up to MaxStrLen long.
Strings == UNION {[1..n -> Alphabet] : n \in 0..MaxStrLen}

\* String.prototype.replace(/[class]/g, ''): every match is removed.
RECURSIVE ReplaceAll(_, _)
ReplaceAll(str, class) ==
  IF str = <<>>
    THEN <<>>
    ELSE IF Head(str) \in class
           THEN ReplaceAll(Tail(str), class)
           ELSE <<Head(str)>> \o ReplaceAll(Tail(str), class)

\* String.prototype.replace(/[class]/, ''): only the first match is removed.
RECURSIVE ReplaceFirst(_, _)
ReplaceFirst(str, class) ==
  IF str = <<>>
    THEN <<>>
    ELSE IF Head(str) \in class
           THEN Tail(str)
           ELSE <<Head(str)>> \o ReplaceFirst(Tail(str), class)

\* Variant: the regular expression lacks the g flag.
cleanUpSymbols_NoGlobalFlag(str) == ReplaceFirst(str, ForbiddenChars)

\* cleanUpSymbols(inputString)
cleanUpSymbols(str) == ReplaceAll(str, ForbiddenChars)

\* minimist's default for sim.
DefaultSim == 5

\* argv when only the album URL is given.
DefaultArgv ==
  [help |-> FALSE, debug |-> FALSE, unknownKey |-> FALSE,
   simIsNumber |-> TRUE, sim |-> DefaultSim,
   trackGiven |-> FALSE, trackID |-> 0]

\* Any string up to MaxStrLen is about to be sanitized.
InitClean ==
  /\ argv = DefaultArgv
  /\ ProgramInit
  /\ inputString \in Strings
  /\ cleanedOnce = <<>>
  /\ cleanedTwice = <<>>
  /\ cleanPc = "input"

\* cleanUpSymbols is applied to the input.
CleanOnce ==
  /\ cleanPc = "input"
  /\ cleanedOnce' = cleanUpSymbols(inputString)
  /\ cleanPc' = "once"
  /\ UNCHANGED <<inputString, cleanedTwice>>
  /\ UNCHANGED orchVars
  /\ UNCHANGED schedVars

\* cleanUpSymbols is applied to its own result.
CleanTwice ==
  /\ cleanPc = "once"
  /\ cleanedTwice' = cleanUpSymbols(cleanedOnce)
  /\ cleanPc' = "twice"
  /\ UNCHANGED <<inputString, cleanedOnce>>
  /\ UNCHANGED orchVars
  /\ UNCHANGED schedVars

NextClean ==
  \/ CleanOnce
  \/ CleanTwice

SpecClean == InitClean /\ [][NextClean]_vars

Next ==
  \/ ParseArgs
  \/ ProcessArgs
  \/ ListingResponse
  \/ AccessCallback
  \/ MkdirArtistCallback
  \/ MkdirAlbumCallback
  \/ CoverSettles
  \/ AwaitChunksReturns
  \/ TaskSettles
  \/ KeepQueueSizeResume
  \/ KeepQueueSizeCatch

Spec == Init /\ [][Next]_vars

\* The program when every started task settles, and settles successfully:
\* the event loop runs every queued continuation, and every stream ends
\* with 'finish'.
NextAllSucceed ==
  \/ ParseArgs
  \/ ProcessArgs
  \/ ListingResponse
  \/ AccessCallback
  \/ MkdirArtistCallback
  \/ MkdirAlbumCallback
  \/ CoverSettles
  \/ AwaitChunksReturns
  \/ TaskSucceeds
  \/ KeepQueueSizeResume

SpecAllSucceed ==
  /\ Init
  /\ [][NextAllSucceed]_vars
  /\ WF_vars(TaskSucceeds)
  /\ WF_vars(KeepQueueSizeResume)
  /\ WF_vars(AwaitChunksReturns)

\* The same, except that the stream of one task may hang for ever.
NextStall ==
  \/ NextAllSucceed
  \/ TaskHangs

SpecStall ==
  /\ Init
  /\ [][NextStall]_vars
  /\ WF_vars(TaskSucceeds)
  /\ WF_vars(KeepQueueSizeResume)
  /\ WF_vars(AwaitChunksReturns)

\* ---- derived notions used by the properties ----
\* Number of callback invocations started and not yet settled.
InFlight == Cardinality({t \in Tracks : taskState[t] = "running"})

\* The backlog as handed to executeInChunks.
SchedInput ==
  IF TrackIDTruthy THEN SingleTrack(tracksData, argv.trackID) ELSE tracksData

SeqToSet(sq) == {sq[i] : i \in 1..Len(sq)}

NoDuplicates(sq) ==
  \A i, j \in 1..Len(sq) : sq[i] = sq[j] => i = j

\* A continuation of keepQueueSize is queued but has not run yet.
ContinuationPending == race.st \in {"resolved", "rejected"}

\* The run is over: main has ended, no task runs, no continuation is queued.
Quiescent == pc = "done" /\ InFlight = 0 /\ ~ContinuationPending

\* ---- C1 ----
\* C1: with limit L >= 1, under any order of successes and failures, the
\* number of callback invocations started and not yet settled is at most L.
C1_AtMostLimitInFlight ==
  (schedCalls > 0 /\ queueSize >= 1) => InFlight <= queueSize

\* A full window of at least two tasks after a replacement has happened.
C1_Witness ==
  /\ schedCalls > 0
  /\ queueSize >= 2
  /\ InFlight = queueSize
  /\ Len(started) > queueSize

\* ---- C2 ----
\* C2: a task that fails does not stop the batch: once the run is over,
\* every backlog item has been started although some task failed.
C2_FailureDoesNotStopBatch ==
  (/\ schedCalls > 0
   /\ queueSize >= 1
   /\ Quiescent
   /\ \E t \in Tracks : taskState[t] = "failed")
  => (/\ callbackArgs = <<>>
      /\ \A t \in SeqToSet(SchedInput) : taskState[t] # "idle")

\* ---- C3 ----
\* C3: over a complete run in which every started task settled (success or
\* failure), the callback was invoked exactly once per backlog item.
C3_EachItemExactlyOnce ==
  (schedCalls > 0 /\ queueSize >= 1 /\ Quiescent)
  => (/\ Len(started) = Len(SchedInput)
      /\ NoDuplicates(started)
      /\ SeqToSet(started) = SeqToSet(SchedInput))

\* ---- C4 ----
\* C4: min(L, N) tasks are started by the call itself, and whenever the
\* backlog is non-empty (and no replacement is about to run) the number of
\* in-flight tasks equals min(L, remaining work).
C4_WindowKeptFull ==
  (schedCalls > 0 /\ queueSize >= 1)
  => (/\ pc = "awaitChunks"
         => (/\ Len(started) = Min(queueSize, Len(SchedInput))
             /\ InFlight = Min(queueSize, Len(SchedInput)))
      /\ (callbackArgs # <<>> /\ ~ContinuationPending)
         => InFlight = Min(queueSize, Len(callbackArgs) + InFlight))

\* ---- C5 ----
\* C5: when the race rejects, the error reaches the top-level handler, which
\* logs 'Failed to download the album' (and the stack in debug mode), and
\* it is not left as an unhandled rejection.
C5_RaceRejectionReachesHandler ==
  (race.st = "aborted" /\ pc = "done")
  => (/\ "Failed to download the album" \in log
      /\ caught # "none"
      /\ (argv.debug => "stack" \in log)
      /\ "keepQueueSize" \notin unhandled)

\* ---- C6 ----
\* C6: `await executeInChunks(tracksData, downloadTrack, parallelDownloads)`
\* does not complete while a backlog item is still undispatched.
C6_AwaitCompletesAfterBacklog ==
  (pc = "done" /\ ~TrackIDTruthy /\ schedCalls > 0 /\ queueSize >= 1)
  => callbackArgs = <<>>

\* ---- C7 ----
\* C7: with limit 1 tasks are started in backlog order and never overlap:
\* at most one task is in flight, the started items are a prefix of the
\* backlog, and every item but the last started one has settled.
C7_LimitOneSerial ==
  (schedCalls > 0 /\ queueSize = 1)
  => (/\ InFlight <= 1
      /\ Len(started) <= Len(SchedInput)
      /\ started = SubSeq(SchedInput, 1, Len(started))
      /\ \A k \in 1..(Len(started) - 1) :
           taskState[started[k]] \in {"finished", "failed"})

\* Limit 1, the third item runs after the first two settled.
C7_Witness ==
  /\ schedCalls > 0
  /\ queueSize = 1
  /\ Len(started) >= 3
  /\ InFlight = 1

\* ---- C8 ----
\* A task settles and the pending race resolves with it.
RaceWon == race.st = "pending" /\ race'.st = "resolved"

\* keepQueueSize resumes and installs the next backlog item.
Replenished == race.st = "resolved" /\ started' # started

\* C8: slot identity.  Every promise at window position i carries the value
\* i; a race won by the task at position i resolves with i; and the next
\* backlog item is installed at exactly that position, the other positions
\* and the window size staying as they were.
C8_SlotIdentity ==
  /\ [](\A i \in 1..Len(queueArray) : queueArray[i].index = i - 1)
  /\ [][RaceWon =>
          \E t \in Tracks :
            /\ taskState[t] = "running"
            /\ taskState'[t] = "finished"
            /\ race'.index + 1 \in 1..Len(queueArray)
            /\ queueArray[race'.index + 1].item = t]_vars
  /\ [][Replenished =>
          /\ Len(queueArray') = Len(queueArray)
          /\ race.index + 1 \in 1..Len(queueArray)
          /\ queueArray'[race.index + 1].item = Head(callbackArgs)
          /\ taskState[queueArray[race.index + 1].item] = "finished"
          /\ \A j \in 1..Len(queueArray) :
               j # race.index + 1 => queueArray'[j] = queueArray[j]]_vars

\* A later backlog item sits in a slot other than the first one.
C8_Witness ==
  /\ schedCalls > 0
  /\ queueSize >= 2
  /\ \E i \in 2..Len(queueArray) : queueArray[i].item > queueSize

\* ---- C9 ----
\* C9: single-track mode with ordinal k in 1..N: the scheduler is run once
\* with limit 1 over the backlog <<k>>, only track k's task is ever started,
\* and the cover is never downloaded.
C9_SingleTrackOnly ==
  (TrackIDTruthy /\ argv.trackID >= 1 /\ argv.trackID <= Len(tracksData))
  => (/\ coverState = "none"
      /\ \A t \in Tracks : taskState[t] # "idle" => t = argv.trackID
      /\ pc = "done" => (/\ schedCalls = 1
                         /\ queueSize = 1
                         /\ started = <<argv.trackID>>
                         /\ callbackArgs = <<>>))

\* Track 3 of a longer album was downloaded alone.
C9_Witness ==
  /\ TrackIDTruthy
  /\ argv.trackID = 3
  /\ Len(tracksData) > 3
  /\ pc = "done"
  /\ taskState[3] = "finished"

\* ---- C10 ----
\* The listing was fetched and the parser returned no track.
EmptyTrackList == listing = "ok" /\ tracksData = <<>>

\* Nothing was created, downloaded or scheduled.
NothingDone ==
  /\ accessCalls = 0
  /\ mkdirCalls = 0
  /\ coverState = "none"
  /\ schedCalls = 0
  /\ started = <<>>
  /\ \A t \in Tracks : taskState[t] = "idle"

\* C10 as stated: an empty track list is reported as "no tracks found",
\* before any directory creation, by the top-level handler.
C10_ReportsNoTracksFound ==
  EmptyTrackList => (/\ "no tracks found" \in log
                     /\ NothingDone
                     /\ caught # "none")

\* C10 amended: an empty track list makes prepareAlbumDir reject with a
\* TypeError before any fs call; the top-level handler catches it and logs
\* 'Failed to download the album'; nothing is created, downloaded or started.
C10_EmptyListAborts ==
  EmptyTrackList => (/\ pc = "done"
                     /\ caught = "TypeError"
                     /\ "Failed to download the album" \in log
                     /\ NothingDone)

\* The run ended on an empty track list.
C10_Witness == EmptyTrackList /\ pc = "done" /\ caught = "TypeError"

\* ---- C11 ----
\* C11: on the full-album path no track task starts before the cover
\* download has settled; a failed cover download is logged, reaches no
\* handler, and executeInChunks is still called once over all of tracksData
\* with the limit given on the command line.
C11_CoverBestEffort ==
  ~TrackIDTruthy
  => (/\ coverState \in {"none", "pending"}
         => (/\ schedCalls = 0
             /\ started = <<>>
             /\ \A t \in Tracks : taskState[t] = "idle")
      /\ coverState = "failed"
         => (/\ "Failed to download cover" \in log
             /\ "Failed to download the album" \notin log
             /\ caught = "none"
             /\ schedCalls = 1
             /\ queueSize = argv.sim
             /\ started \o callbackArgs = tracksData))

\* The cover failed and a track was downloaded all the same.
C11_Witness ==
  /\ coverState = "failed"
  /\ \E t \in Tracks : taskState[t] = "finished"

\* ---- C12 ----
\* C12: if creating the artist or the album directory fails, neither the
\* cover download nor any track task is started, and once the album mkdir
\* has failed the run has ended in the top-level handler.
C12_MkdirFailureIsFatal ==
  /\ mkdirFailed # {}
       => (/\ coverState = "none"
           /\ schedCalls = 0
           /\ started = <<>>)
  /\ "album" \in mkdirFailed => (pc = "done" /\ caught # "none")

\* ---- C13 ----
\* C13: the album directory is prepared at most once, and exactly once
\* (prepareAlbumDir called and resolved) before the cover download or any
\* track task starts; no fs.access or fs.mkdir is issued from then on, in
\* particular none by a track task.
C13_DirPreparedOnceBeforeWrites ==
  /\ [](accessCalls <= 1 /\ mkdirCalls <= 2)
  /\ []((coverState # "none" \/ started # <<>>)
          => (/\ accessCalls = 1
              /\ mkdirCalls \in {0, 2}
              /\ pc \in {"cover", "awaitChunks", "done"}))
  /\ [][(mkdirCalls' # mkdirCalls \/ accessCalls' # accessCalls)
          => (/\ coverState = "none" /\ coverState' = "none"
              /\ started = <<>> /\ started' = <<>>)]_vars

\* Both directories were created, then the cover and a track were written.
C13_Witness ==
  /\ mkdirCalls = 2
  /\ coverState = "ok"
  /\ \E t \in Tracks : taskState[t] = "finished"

\* ---- C14 ----
KeptChar(c) == c \notin ForbiddenChars

\* C14: cleanUpSymbols(s) contains no forbidden character and consists of
\* the other characters of s in their order; applying it again changes
\* nothing.
C14_SanitizeIdempotent ==
  /\ cleanPc \in {"once", "twice"}
       => /\ \A i \in 1..Len(cleanedOnce) : cleanedOnce[i] \notin ForbiddenChars
          /\ cleanedOnce = SelectSeq(inputString, KeptChar)
  /\ cleanPc = "twice" => cleanedTwice = cleanedOnce

\* A string with two forbidden characters around a kept one, cleaned twice.
C14_Witness ==
  /\ cleanPc = "twice"
  /\ Len(inputString) = 3
  /\ inputString[1] \in ForbiddenChars
  /\ inputString[2] \notin ForbiddenChars
  /\ inputString[3] \in ForbiddenChars
  /\ cleanedTwice = <<inputString[2]>>

\* ---- C15 ----
\* C15: every downloadTrack invocation prints 'Starting download' before its
\* single downloadFile call, then exactly one of 'Download is finished' and
\* 'Download is failed'; after 'failed' its promise is rejected, and the
\* download is never attempted a second time.
C15_TrackNotifications ==
  \A t \in Tracks :
    /\ fetches[t] <= 1
    /\ fetches[t] = 1 => (Len(notes[t]) >= 1 /\ notes[t][1] = "Starting download")
    /\ taskState[t] = "idle" => (notes[t] = <<>> /\ fetches[t] = 0)
    /\ taskState[t] = "running" => notes[t] = <<"Starting download">>
    /\ taskState[t] = "finished"
         => notes[t] = <<"Starting download", "Download is finished">>
    /\ taskState[t] = "failed"
         => notes[t] = <<"Starting download", "Download is failed">>
    /\ (Len(notes[t]) >= 2 /\ notes[t][2] = "Download is failed")
         => PromiseState(ExecWith(t, 0), taskState) = "rejected"

\* One track failed and another one finished.
C15_Witness ==
  /\ \E t \in Tracks : taskState[t] = "failed"
  /\ \E t \in Tracks : taskState[t] = "finished"

\* ---- C16 ----
\* No request was answered or issued: no listing, no cover, no track.
NoNetwork ==
  /\ listing = "none"
  /\ coverState = "none"
  /\ started = <<>>
  /\ \A t \in Tracks : fetches[t] = 0

\* C16: an unknown flag ends the process with the usage text and exit code
\* 1, the help flag with the usage text and exit code 0; the exit is taken
\* before the listing request is issued, so no network request is ever made.
C16_UsageExitsBeforeNetwork ==
  /\ []((argv.unknownKey /\ pc # "parseArgs")
          => (pc = "exited" /\ exitCode = 1 /\ "Usage" \in log))
  /\ []((argv.help /\ ~argv.unknownKey /\ pc \notin {"parseArgs", "processArgs"})
          => (pc = "exited" /\ exitCode = 0 /\ "Usage" \in log))
  /\ [](pc = "exited" => NoNetwork)
  /\ [][pc' = "exited" => pc \in {"parseArgs", "processArgs"}]_vars

\* The process exited with code 1 on an unknown key.
C16_Witness ==
  /\ argv.unknownKey
  /\ pc = "exited"
  /\ exitCode = 1
  /\ "Unknown key" \in log

\* ---- C17 ----
\* C17: for any limit >= 1 and any order of settlements, the started items
\* are a prefix of the backlog handed in and the remaining backlog is the
\* rest of it: items leave the backlog from the front only.
C17_StartInBacklogOrder ==
  (schedCalls > 0 /\ queueSize >= 1)
  => (/\ Len(started) <= Len(SchedInput)
      /\ started = SubSeq(SchedInput, 1, Len(started))
      /\ callbackArgs = SubSeq(SchedInput, Len(started) + 1, Len(SchedInput)))

\* The second item finished while the first still runs, and a third started.
C17_Witness ==
  /\ schedCalls > 0
  /\ queueSize >= 2
  /\ Len(started) >= 3
  /\ taskState[started[1]] = "running"
  /\ taskState[started[2]] = "finished"

\* ---- C18 ----
Finished == {t \in Tracks : taskState[t] = "finished"}

\* C18: a replacement goes into a slot only after the task in that slot has
\* settled, and the settled promise leaves the window with it; there are
\* never more replacements than successful settlements; a pending race has
\* only pending members, and a race is settled only by a task that is in
\* the window and settles in that step.
C18_ReplaceAfterSettle ==
  /\ [](race.st = "pending"
          => \A i \in 1..Len(queueArray) :
               taskState[queueArray[i].item] = "running")
  /\ []((schedCalls > 0 /\ queueSize >= 1)
          => Len(started) - Min(queueSize, Len(SchedInput))
               <= Cardinality(Finished))
  /\ [][(race.st = "pending" /\ race'.st # "pending")
          => \E i \in 1..Len(queueArray) :
               /\ taskState[queueArray[i].item] = "running"
               /\ taskState'[queueArray[i].item] # "running"]_vars
  /\ [][Replenished
          => /\ race.index + 1 \in 1..Len(queueArray)
             /\ taskState[queueArray[race.index + 1].item] # "running"
             /\ \A j \in 1..Len(queueArray') :
                  queueArray'[j].item # queueArray[race.index + 1].item
             /\ Len(started') = Len(started) + 1]_vars

\* A finished task has left the window and a later race is pending.
C18_Witness ==
  /\ schedCalls > 0
  /\ race.st = "pending"
  /\ \E t \in Tracks : taskState[t] = "finished" /\ SlotOf(queueArray, t) = 0

\* ---- C19 ----
\* The backlog is empty and every item handed in has finished.
Drained ==
  /\ schedCalls > 0
  /\ callbackArgs = <<>>
  /\ \A t \in SeqToSet(SchedInput) : taskState[t] = "finished"

\* C19: when every started task settles successfully, a scheduler run with
\* limit >= 1 leads to a state in which the backlog is empty and all items
\* have settled, and from then on no task is started.
C19_EventuallyDrained ==
  /\ (schedCalls > 0 /\ queueSize >= 1) ~> Drained
  /\ [][Drained => (Drained' /\ started' = started)]_vars

\* A backlog longer than the window has been drained.
C19_Witness ==
  /\ Drained
  /\ queueSize >= 1
  /\ Len(started) >= queueSize + 2

\* ---- C20 ----
\* C20: a task whose stream hangs stays running in its slot for ever; with
\* limit 1 nothing is dispatched from then on; with limit >= 2 the backlog
\* is still emptied through the other slots when their tasks succeed.
C20_HungTaskKeepsSlot ==
  /\ [][\A t \in hung :
          /\ t \in hung'
          /\ taskState'[t] = "running"
          /\ SlotOf(queueArray, t) # 0
          /\ SlotOf(queueArray', t) = SlotOf(queueArray, t)]_vars
  /\ [][(hung # {} /\ queueSize = 1) => started' = started]_vars
  /\ (hung # {} /\ queueSize >= 2) ~> (callbackArgs = <<>>)

\* A task of the initial window hangs and the backlog was emptied past it.
C20_Witness ==
  /\ queueSize >= 2
  /\ \E t \in hung : t <= queueSize
  /\ callbackArgs = <<>>
  /\ Len(started) >= queueSize + 2

\* ---- C21 ----
InBacklog(t) == \E i \in 1..Len(callbackArgs) : callbackArgs[i] = t

\* C21: conservation.  Once executeInChunks was called, every item handed
\* in is in exactly one of: the backlog, in flight, settled; no item was
\* dispatched twice, and at most N tasks were started.
C21_Conservation ==
  schedCalls > 0
  => (/\ \A t \in SeqToSet(SchedInput) :
           /\ InBacklog(t) <=> taskState[t] = "idle"
           /\ taskState[t] \in {"idle", "running", "finished", "failed"}
           /\ fetches[t] <= 1
      /\ \A t \in Tracks \ SeqToSet(SchedInput) :
           taskState[t] = "idle" /\ ~InBacklog(t)
      /\ NoDuplicates(callbackArgs)
      /\ NoDuplicates(started)
      /\ SeqToSet(started) = {t \in Tracks : taskState[t] # "idle"}
      /\ Len(started) <= Len(SchedInput)
      /\ Len(started) + Len(callbackArgs) = Len(SchedInput))

\* Items in all places at once: backlog, in flight, finished and failed.
C21_Witness ==
  /\ schedCalls > 0
  /\ callbackArgs # <<>>
  /\ \E t \in Tracks : taskState[t] = "running"
  /\ \E t \in Tracks : taskState[t] = "finished"
  /\ \E t \in Tracks : taskState[t] = "failed"

\* ---- C22 ----
\* C22: a concurrency limit that is not a positive integer is rejected by
\* processArgs with the usage text and a non-zero exit code, so that
\* executeInChunks never gets queueSize < 1 with a non-empty backlog.
C22_LimitAtLeastOne ==
  /\ (/\ ~argv.unknownKey
      /\ ~argv.help
      /\ (~argv.simIsNumber \/ argv.sim < 1)
      /\ pc \notin {"parseArgs", "processArgs"})
     => (pc = "exited" /\ exitCode > 0 /\ "Usage" \in log)
  /\ (schedCalls > 0 /\ Len(SchedInput) > 0) => queueSize >= 1

\* ---- C23 ----
\* C23: with the single-track option and an ordinal outside 1..N, no track
\* task is started and the cover is not downloaded.
C23_OutOfRangeTrackDoesNothing ==
  (/\ argv.trackGiven
   /\ listing = "ok"
   /\ (argv.trackID < 1 \/ argv.trackID > Len(tracksData)))
  => (/\ coverState = "none"
      /\ started = <<>>
      /\ \A t \in Tracks : taskState[t] = "idle")

====
